---- MODULE Spec2Model ----
(***************************************************************************)
(* A model of the fee-gated name registry of src/src/contract.rs.          *)
(*                                                                         *)
(* A name is the sequence of its chars (Unicode code points) and its       *)
(* length is the number of bytes of its UTF-8 encoding.  Bio and website   *)
(* are ASCII texts, held as strings: one byte for each character.          *)
(* Option<T> is a sequence of length 0 (None) or 1 (Some).                 *)
(* The record table NAME_RESOLVER is a function whose domain is the set of *)
(* keys that hold a record.  Every handler is an operator from (storage,   *)
(* request) to (result, storage, messages); the actions apply it.          *)
(***************************************************************************)
EXTENDS Integers, Sequences, FiniteSets, TLC

VARIABLES
    CONFIG,            \* the singleton configuration record
    NAME_RESOLVER,     \* the record table, keyed by the bytes of the name
    contract_version,  \* the cw2 contract name kept in storage
    request,           \* the request the host is running, NoRequest when idle
    response,          \* what the handler returned for it
    before             \* the storage as the running request found it

vars == <<CONFIG, NAME_RESOLVER, contract_version, request, response, before>>

----------------------------------------------------------------------------
(* Program constants                                                       *)

MIN_NAME_LENGTH == 3
MAX_NAME_LENGTH == 30
MAX_BIO_LENGTH == 200
MAX_WEBSITE_LENGTH == 100
CONTRACT_NAME == "cw-huahua-name"

----------------------------------------------------------------------------
(* Bounds of the model                                                     *)

\* addresses are 1..NumAddrs; 0 is a string that fails addr_validate
NumAddrs == 2

----------------------------------------------------------------------------
(* Strings                                                                 *)

\* the number of bytes of the UTF-8 encoding of the char c
Utf8Width(c) == IF c < 128 THEN 1 ELSE IF c < 2048 THEN 2 ELSE IF c < 65536 THEN 3 ELSE 4

\* str::len of a name: the number of bytes of its UTF-8 encoding
RECURSIVE NameLen(_)
NameLen(name) == IF name = <<>> THEN 0 ELSE Utf8Width(Head(name)) + NameLen(Tail(name))

\* str::len of an ASCII text
StrLen(text) == Len(text)

\* the name of n chars c
Str(c, n) == [i \in 1..n |-> c]

\* the text of n characters c
RECURSIVE Text(_, _)
Text(c, n) ==
    IF n = 0 THEN ""
    ELSE LET half == Text(c, n \div 2)
         IN  IF n % 2 = 0 THEN half \o half ELSE half \o half \o c

----------------------------------------------------------------------------
(* Option, Coin, errors                                                    *)

None == <<>>
Some(x) == <<x>>

Coin(d, a) == [denom |-> d, amount |-> a]

OkResult == [kind |-> "Ok"]

----------------------------------------------------------------------------
(* Inputs                                                                  *)

Addrs == 1..NumAddrs
BadAddr == 0
AddrStrings == Addrs \cup {BadAddr}

NameAbc == <<97, 98, 99>>
NameA1 == <<97, 45, 49>>
NameShort == <<97, 98>>
NameUpper == <<97, 66, 99>>
NameLong == Str(97, MAX_NAME_LENGTH + 1)
NameInputs == {NameAbc, NameA1, NameShort, NameUpper, NameLong}
\* the names transfer and edit are tried on
KeyInputs == {NameAbc, NameA1, NameUpper}

\* the (bio, website) pairs tried: short, both at the limit, and either or both
\* one byte over it
BioMax == Text("b", MAX_BIO_LENGTH)
BioOver == Text("b", MAX_BIO_LENGTH + 1)
WebsiteMax == Text("w", MAX_WEBSITE_LENGTH)
WebsiteOver == Text("w", MAX_WEBSITE_LENGTH + 1)
TextInputs ==
    { [bio |-> "hi", website |-> ""],
      [bio |-> BioMax, website |-> WebsiteMax],
      [bio |-> BioOver, website |-> WebsiteMax],
      [bio |-> "hi", website |-> WebsiteOver],
      [bio |-> BioOver, website |-> WebsiteOver] }

PriceAmount == 10
Price == Coin("uatom", PriceAmount)
PriceInputs == {None, Some(Price)}

\* nothing; a coin of another denom and too small a coin of the price's denom;
\* the exact amount, in second place; an overpayment
FundsInputs ==
    { <<>>,
      <<Coin("uluna", PriceAmount + 1), Coin("uatom", PriceAmount - 1)>>,
      <<Coin("uluna", PriceAmount - 1), Coin("uatom", PriceAmount)>>,
      <<Coin("uatom", PriceAmount + 1)>> }

BalanceInputs == {<<>>, <<Coin("uatom", PriceAmount)>>}

----------------------------------------------------------------------------
(* Handler results                                                         *)

Storage == [config |-> CONFIG, name_resolver |-> NAME_RESOLVER, version |-> contract_version]

Ok(st, msgs) == [err |-> OkResult, storage |-> st, messages |-> msgs]
Err(e, st) == [err |-> e, storage |-> st, messages |-> <<>>]

----------------------------------------------------------------------------
(* External collaborators                                                  *)

\* deps.api.addr_validate
addr_validate(s) == IF s \in Addrs THEN OkResult ELSE [kind |-> "InvalidAddress"]

\* coin_helpers::assert_sent_sufficient_coin: the Fee Gate, after section 4.2 of
\* the design (coin_helpers.rs is not among the sources)
assert_sent_sufficient_coin(sent, required) ==
    IF required = None THEN OkResult
    ELSE IF \E i \in 1..Len(sent) :
                /\ sent[i].denom = required[1].denom
                /\ sent[i].amount >= required[1].amount
         THEN OkResult
         ELSE [kind |-> "InsufficientFunds"]

----------------------------------------------------------------------------
(* Name Validator                                                          *)

invalid_char(c) ==
    LET is_valid == (c \in 48..57) \/ (c \in 97..122) \/ (c = 45)
    IN  ~is_valid

\* the UTF-8 encoding of one character
Utf8Encode(c) ==
    IF c < 128 THEN <<c>>
    ELSE IF c < 2048 THEN <<192 + (c \div 64), 128 + (c % 64)>>
    ELSE IF c < 65536
    THEN <<224 + (c \div 4096), 128 + ((c \div 64) % 64), 128 + (c % 64)>>
    ELSE <<240 + (c \div 262144), 128 + ((c \div 4096) % 64),
           128 + ((c \div 64) % 64), 128 + (c % 64)>>

\* the bytes a &str holds
RECURSIVE Utf8(_)
Utf8(name) == IF name = <<>> THEN <<>> ELSE Utf8Encode(Head(name)) \o Utf8(Tail(name))

\* name.find(invalid_char): the byte offset at which the first invalid
\* character starts
find(name) ==
    IF \E i \in 1..Len(name) : invalid_char(name[i])
    THEN LET first == CHOOSE i \in 1..Len(name) :
                         /\ invalid_char(name[i])
                         /\ \A j \in 1..(i - 1) : ~invalid_char(name[j])
         IN  Some(NameLen(SubSeq(name, 1, first - 1)))
    ELSE None

\* bytes[start..].chars().next().unwrap(): the character decoded from the
\* bytes that begin at byte offset start
chars_next(bytes, start) ==
    LET lead == bytes[start + 1]
        cont(k) == bytes[start + k] - 128
    IN  IF lead < 128 THEN lead
        ELSE IF lead < 224 THEN (lead - 192) * 64 + cont(2)
        ELSE IF lead < 240 THEN (lead - 224) * 4096 + cont(2) * 64 + cont(3)
        ELSE (lead - 240) * 262144 + cont(2) * 4096 + cont(3) * 64 + cont(4)

\* Variant of validate_name with one plausible slip.

\* the byte at the offset found is reported as the character
validate_name_byte(name) ==
    LET length == NameLen(name) IN
    IF length < MIN_NAME_LENGTH
    THEN [kind |-> "NameTooShort", length |-> length, min_length |-> MIN_NAME_LENGTH]
    ELSE IF length > MAX_NAME_LENGTH
    THEN [kind |-> "NameTooLong", length |-> length, max_length |-> MAX_NAME_LENGTH]
    ELSE LET found == find(name) IN
         IF found = None THEN OkResult
         ELSE LET bytepos_invalid_char_start == found[1]
                  c == Utf8(name)[bytepos_invalid_char_start + 1]
              IN  [kind |-> "InvalidCharacter", c |-> c]

validate_name(name) ==
    LET length == NameLen(name) IN
    IF length < MIN_NAME_LENGTH
    THEN [kind |-> "NameTooShort", length |-> length, min_length |-> MIN_NAME_LENGTH]
    ELSE IF length > MAX_NAME_LENGTH
    THEN [kind |-> "NameTooLong", length |-> length, max_length |-> MAX_NAME_LENGTH]
    ELSE LET found == find(name) IN
         IF found = None THEN OkResult
         ELSE LET bytepos_invalid_char_start == found[1]
                  c == chars_next(Utf8(name), bytepos_invalid_char_start)
              IN  [kind |-> "InvalidCharacter", c |-> c]

----------------------------------------------------------------------------
(* Operation handlers                                                      *)

\* Variants of instantiate, each with one plausible slip.

\* the prices of the message are ignored: every price starts unset
instantiate_free(info, msg) ==
    LET owner == IF msg.admin # None /\ addr_validate(msg.admin[1]) = OkResult
                 THEN msg.admin[1]
                 ELSE info.sender
    IN  [config |-> [owner |-> owner, purchase_price |-> None,
                     transfer_price |-> None, edit_price |-> None],
         name_resolver |-> <<>>,
         version |-> CONTRACT_NAME]

\* the admin of the message is taken without validation
instantiate_unchecked(info, msg) ==
    LET owner == IF msg.admin # None THEN msg.admin[1] ELSE info.sender
    IN  [config |-> [owner |-> owner,
                     purchase_price |-> msg.purchase_price,
                     transfer_price |-> msg.transfer_price,
                     edit_price |-> msg.edit_price],
         name_resolver |-> <<>>,
         version |-> CONTRACT_NAME]

instantiate(info, msg) ==
    LET owner == IF msg.admin # None /\ addr_validate(msg.admin[1]) = OkResult
                 THEN msg.admin[1]
                 ELSE info.sender
        config == [owner |-> owner,
                   purchase_price |-> msg.purchase_price,
                   transfer_price |-> msg.transfer_price,
                   edit_price |-> msg.edit_price]
    IN  [config |-> config,
         name_resolver |-> <<>>,
         version |-> CONTRACT_NAME]

migrate(st) ==
    IF st.version # CONTRACT_NAME
    THEN Err([kind |-> "Std"], st)
    ELSE Ok([st EXCEPT !.version = CONTRACT_NAME], <<>>)

BioTooLong(bio_length) ==
    [kind |-> "BioTooLong", bio_length |-> bio_length, max_length |-> MAX_BIO_LENGTH]

WebsiteTooLong(website_length) ==
    [kind |-> "WebsiteTooLong", website_length |-> website_length,
     max_length |-> MAX_WEBSITE_LENGTH]

\* Map::save: the table with `record` stored under `key`
save(table, key, record) ==
    [k \in DOMAIN table \cup {key} |-> IF k = key THEN record ELSE table[k]]

\* Variants of execute_register, each with one plausible slip.

\* the owner of a record may register its name again, replacing the record
execute_register_owner_again(st, info, name, bio, website) ==
    LET v == validate_name(name)
        fee == assert_sent_sufficient_coin(info.funds, st.config.purchase_price)
        key == name
        record == [owner |-> info.sender, bio |-> bio, website |-> website]
    IN  IF v # OkResult THEN Err(v, st)
        ELSE IF fee # OkResult THEN Err(fee, st)
        ELSE IF StrLen(bio) > MAX_BIO_LENGTH THEN Err(BioTooLong(StrLen(bio)), st)
        ELSE IF StrLen(website) > MAX_WEBSITE_LENGTH
        THEN Err(WebsiteTooLong(StrLen(website)), st)
        ELSE IF key \in DOMAIN st.name_resolver /\ st.name_resolver[key].owner # info.sender
        THEN Err([kind |-> "NameTaken", name |-> name], st)
        ELSE Ok([st EXCEPT !.name_resolver = save(st.name_resolver, key, record)], <<>>)

\* the length checks use >= where the code uses >
execute_register_strict(st, info, name, bio, website) ==
    LET v == validate_name(name)
        fee == assert_sent_sufficient_coin(info.funds, st.config.purchase_price)
        key == name
        record == [owner |-> info.sender, bio |-> bio, website |-> website]
    IN  IF v # OkResult THEN Err(v, st)
        ELSE IF fee # OkResult THEN Err(fee, st)
        ELSE IF StrLen(bio) >= MAX_BIO_LENGTH THEN Err(BioTooLong(StrLen(bio)), st)
        ELSE IF StrLen(website) >= MAX_WEBSITE_LENGTH
        THEN Err(WebsiteTooLong(StrLen(website)), st)
        ELSE IF key \in DOMAIN st.name_resolver
        THEN Err([kind |-> "NameTaken", name |-> name], st)
        ELSE Ok([st EXCEPT !.name_resolver = save(st.name_resolver, key, record)], <<>>)

\* the name is not validated
execute_register_unvalidated(st, info, name, bio, website) ==
    LET fee == assert_sent_sufficient_coin(info.funds, st.config.purchase_price)
        key == name
        record == [owner |-> info.sender, bio |-> bio, website |-> website]
    IN  IF fee # OkResult THEN Err(fee, st)
        ELSE IF StrLen(bio) > MAX_BIO_LENGTH THEN Err(BioTooLong(StrLen(bio)), st)
        ELSE IF StrLen(website) > MAX_WEBSITE_LENGTH
        THEN Err(WebsiteTooLong(StrLen(website)), st)
        ELSE IF key \in DOMAIN st.name_resolver
        THEN Err([kind |-> "NameTaken", name |-> name], st)
        ELSE Ok([st EXCEPT !.name_resolver = save(st.name_resolver, key, record)], <<>>)

execute_register(st, info, name, bio, website) ==
    LET v == validate_name(name)
        fee == assert_sent_sufficient_coin(info.funds, st.config.purchase_price)
        key == name
        bio_length == StrLen(bio)
        website_length == StrLen(website)
        record == [owner |-> info.sender, bio |-> bio, website |-> website]
    IN  IF v # OkResult THEN Err(v, st)
        ELSE IF fee # OkResult THEN Err(fee, st)
        ELSE IF bio_length > MAX_BIO_LENGTH THEN Err(BioTooLong(bio_length), st)
        ELSE IF website_length > MAX_WEBSITE_LENGTH
        THEN Err(WebsiteTooLong(website_length), st)
        ELSE IF key \in DOMAIN st.name_resolver
        THEN Err([kind |-> "NameTaken", name |-> name], st)
        ELSE Ok([st EXCEPT !.name_resolver = save(st.name_resolver, key, record)], <<>>)

\* Variants of execute_transfer, each with one plausible slip.

\* the registry owner may transfer any name
execute_transfer_admin(st, info, name, to) ==
    LET fee == assert_sent_sufficient_coin(info.funds, st.config.transfer_price)
        valid == addr_validate(to)
        key == name
    IN  IF fee # OkResult THEN Err(fee, st)
        ELSE IF valid # OkResult THEN Err(valid, st)
        ELSE IF key \in DOMAIN st.name_resolver
        THEN LET record == st.name_resolver[key] IN
             IF info.sender # record.owner /\ info.sender # st.config.owner
             THEN Err([kind |-> "Unauthorized"], st)
             ELSE Ok([st EXCEPT !.name_resolver =
                         save(st.name_resolver, key, [record EXCEPT !.owner = to])],
                     <<>>)
        ELSE Err([kind |-> "NameNotExists", name |-> name], st)

\* the new owner gets a fresh record, without the bio and website
execute_transfer_fresh(st, info, name, to) ==
    LET fee == assert_sent_sufficient_coin(info.funds, st.config.transfer_price)
        valid == addr_validate(to)
        key == name
    IN  IF fee # OkResult THEN Err(fee, st)
        ELSE IF valid # OkResult THEN Err(valid, st)
        ELSE IF key \in DOMAIN st.name_resolver
        THEN LET record == st.name_resolver[key] IN
             IF info.sender # record.owner
             THEN Err([kind |-> "Unauthorized"], st)
             ELSE Ok([st EXCEPT !.name_resolver =
                         save(st.name_resolver, key,
                              [owner |-> to, bio |-> "", website |-> ""])],
                     <<>>)
        ELSE Err([kind |-> "NameNotExists", name |-> name], st)

\* a name transferred to the registry owner is released: its record is removed
execute_transfer_release(st, info, name, to) ==
    LET fee == assert_sent_sufficient_coin(info.funds, st.config.transfer_price)
        valid == addr_validate(to)
        key == name
    IN  IF fee # OkResult THEN Err(fee, st)
        ELSE IF valid # OkResult THEN Err(valid, st)
        ELSE IF key \in DOMAIN st.name_resolver
        THEN LET record == st.name_resolver[key] IN
             IF info.sender # record.owner
             THEN Err([kind |-> "Unauthorized"], st)
             ELSE IF to = st.config.owner
             THEN Ok([st EXCEPT !.name_resolver =
                         [k \in DOMAIN st.name_resolver \ {key} |-> st.name_resolver[k]]],
                     <<>>)
             ELSE Ok([st EXCEPT !.name_resolver =
                         save(st.name_resolver, key, [record EXCEPT !.owner = to])],
                     <<>>)
        ELSE Err([kind |-> "NameNotExists", name |-> name], st)

\* a transfer by the registry owner hands the registry over with the name
execute_transfer_registry(st, info, name, to) ==
    LET fee == assert_sent_sufficient_coin(info.funds, st.config.transfer_price)
        valid == addr_validate(to)
        key == name
    IN  IF fee # OkResult THEN Err(fee, st)
        ELSE IF valid # OkResult THEN Err(valid, st)
        ELSE IF key \in DOMAIN st.name_resolver
        THEN LET record == st.name_resolver[key] IN
             IF info.sender # record.owner
             THEN Err([kind |-> "Unauthorized"], st)
             ELSE Ok([st EXCEPT
                         !.name_resolver =
                             save(st.name_resolver, key, [record EXCEPT !.owner = to]),
                         !.config.owner =
                             IF info.sender = st.config.owner THEN to ELSE @],
                     <<>>)
        ELSE Err([kind |-> "NameNotExists", name |-> name], st)

execute_transfer(st, info, name, to) ==
    LET fee == assert_sent_sufficient_coin(info.funds, st.config.transfer_price)
        valid == addr_validate(to)
        new_owner == to
        key == name
    IN  IF fee # OkResult THEN Err(fee, st)
        ELSE IF valid # OkResult THEN Err(valid, st)
        ELSE IF key \in DOMAIN st.name_resolver
        THEN LET record == st.name_resolver[key] IN
             IF info.sender # record.owner
             THEN Err([kind |-> "Unauthorized"], st)
             ELSE Ok([st EXCEPT !.name_resolver =
                         save(st.name_resolver, key, [record EXCEPT !.owner = new_owner])],
                     <<>>)
        ELSE Err([kind |-> "NameNotExists", name |-> name], st)

\* Variants of execute_edit, each with one plausible slip.

\* the bio is stored before the website is checked
execute_edit_partial(st, info, name, bio, website) ==
    LET fee == assert_sent_sufficient_coin(info.funds, st.config.edit_price)
        key == name
    IN  IF fee # OkResult THEN Err(fee, st)
        ELSE IF key \in DOMAIN st.name_resolver
        THEN LET record == st.name_resolver[key]
                 with_bio == [st EXCEPT !.name_resolver =
                                 save(st.name_resolver, key, [record EXCEPT !.bio = bio])]
             IN
             IF info.sender # record.owner
             THEN Err([kind |-> "Unauthorized"], st)
             ELSE IF StrLen(bio) > MAX_BIO_LENGTH THEN Err(BioTooLong(StrLen(bio)), st)
             ELSE IF StrLen(website) > MAX_WEBSITE_LENGTH
             THEN Err(WebsiteTooLong(StrLen(website)), with_bio)
             ELSE Ok([st EXCEPT !.name_resolver =
                         save(st.name_resolver, key,
                              [record EXCEPT !.bio = bio, !.website = website])],
                     <<>>)
        ELSE Err([kind |-> "NameNotExists", name |-> name], st)

\* only the bio is replaced
execute_edit_bio_only(st, info, name, bio, website) ==
    LET fee == assert_sent_sufficient_coin(info.funds, st.config.edit_price)
        key == name
    IN  IF fee # OkResult THEN Err(fee, st)
        ELSE IF key \in DOMAIN st.name_resolver
        THEN LET record == st.name_resolver[key] IN
             IF info.sender # record.owner
             THEN Err([kind |-> "Unauthorized"], st)
             ELSE IF StrLen(bio) > MAX_BIO_LENGTH THEN Err(BioTooLong(StrLen(bio)), st)
             ELSE IF StrLen(website) > MAX_WEBSITE_LENGTH
             THEN Err(WebsiteTooLong(StrLen(website)), st)
             ELSE Ok([st EXCEPT !.name_resolver =
                         save(st.name_resolver, key, [record EXCEPT !.bio = bio])],
                     <<>>)
        ELSE Err([kind |-> "NameNotExists", name |-> name], st)

\* the fee gate reads transfer_price, as execute_edit_conf does
execute_edit_transfer_price(st, info, name, bio, website) ==
    LET fee == assert_sent_sufficient_coin(info.funds, st.config.transfer_price)
        key == name
    IN  IF fee # OkResult THEN Err(fee, st)
        ELSE IF key \in DOMAIN st.name_resolver
        THEN LET record == st.name_resolver[key] IN
             IF info.sender # record.owner
             THEN Err([kind |-> "Unauthorized"], st)
             ELSE IF StrLen(bio) > MAX_BIO_LENGTH THEN Err(BioTooLong(StrLen(bio)), st)
             ELSE IF StrLen(website) > MAX_WEBSITE_LENGTH
             THEN Err(WebsiteTooLong(StrLen(website)), st)
             ELSE Ok([st EXCEPT !.name_resolver =
                         save(st.name_resolver, key,
                              [record EXCEPT !.bio = bio, !.website = website])],
                     <<>>)
        ELSE Err([kind |-> "NameNotExists", name |-> name], st)

\* the lengths of bio and website are not checked
execute_edit_no_limits(st, info, name, bio, website) ==
    LET fee == assert_sent_sufficient_coin(info.funds, st.config.edit_price)
        key == name
    IN  IF fee # OkResult THEN Err(fee, st)
        ELSE IF key \in DOMAIN st.name_resolver
        THEN LET record == st.name_resolver[key] IN
             IF info.sender # record.owner
             THEN Err([kind |-> "Unauthorized"], st)
             ELSE Ok([st EXCEPT !.name_resolver =
                         save(st.name_resolver, key,
                              [record EXCEPT !.bio = bio, !.website = website])],
                     <<>>)
        ELSE Err([kind |-> "NameNotExists", name |-> name], st)

\* the registry owner may edit any record
execute_edit_admin(st, info, name, bio, website) ==
    LET fee == assert_sent_sufficient_coin(info.funds, st.config.edit_price)
        key == name
    IN  IF fee # OkResult THEN Err(fee, st)
        ELSE IF key \in DOMAIN st.name_resolver
        THEN LET record == st.name_resolver[key] IN
             IF info.sender # record.owner /\ info.sender # st.config.owner
             THEN Err([kind |-> "Unauthorized"], st)
             ELSE IF StrLen(bio) > MAX_BIO_LENGTH THEN Err(BioTooLong(StrLen(bio)), st)
             ELSE IF StrLen(website) > MAX_WEBSITE_LENGTH
             THEN Err(WebsiteTooLong(StrLen(website)), st)
             ELSE Ok([st EXCEPT !.name_resolver =
                         save(st.name_resolver, key,
                              [record EXCEPT !.bio = bio, !.website = website])],
                     <<>>)
        ELSE Err([kind |-> "NameNotExists", name |-> name], st)

\* the lengths are checked before the record is read, as execute_register does
execute_edit_lengths_first(st, info, name, bio, website) ==
    LET fee == assert_sent_sufficient_coin(info.funds, st.config.edit_price)
        key == name
    IN  IF fee # OkResult THEN Err(fee, st)
        ELSE IF StrLen(bio) > MAX_BIO_LENGTH THEN Err(BioTooLong(StrLen(bio)), st)
        ELSE IF StrLen(website) > MAX_WEBSITE_LENGTH
        THEN Err(WebsiteTooLong(StrLen(website)), st)
        ELSE IF key \in DOMAIN st.name_resolver
        THEN LET record == st.name_resolver[key] IN
             IF info.sender # record.owner
             THEN Err([kind |-> "Unauthorized"], st)
             ELSE Ok([st EXCEPT !.name_resolver =
                         save(st.name_resolver, key,
                              [record EXCEPT !.bio = bio, !.website = website])],
                     <<>>)
        ELSE Err([kind |-> "NameNotExists", name |-> name], st)

execute_edit(st, info, name, bio, website) ==
    LET fee == assert_sent_sufficient_coin(info.funds, st.config.edit_price)
        key == name
        bio_length == StrLen(bio)
        website_length == StrLen(website)
    IN  IF fee # OkResult THEN Err(fee, st)
        ELSE IF key \in DOMAIN st.name_resolver
        THEN LET record == st.name_resolver[key] IN
             IF info.sender # record.owner
             THEN Err([kind |-> "Unauthorized"], st)
             ELSE IF bio_length > MAX_BIO_LENGTH THEN Err(BioTooLong(bio_length), st)
             ELSE IF website_length > MAX_WEBSITE_LENGTH
             THEN Err(WebsiteTooLong(website_length), st)
             ELSE Ok([st EXCEPT !.name_resolver =
                         save(st.name_resolver, key,
                              [record EXCEPT !.bio = bio, !.website = website])],
                     <<>>)
        ELSE Err([kind |-> "NameNotExists", name |-> name], st)

\* Variants of execute_edit_conf, each with one plausible slip.

\* the caller is not checked against the registry owner
execute_edit_conf_no_auth(st, info, purchase_price, transfer_price, edit_price) ==
    LET get_config == st.config
        fee == assert_sent_sufficient_coin(info.funds, get_config.transfer_price)
    IN  IF fee # OkResult THEN Err(fee, st)
        ELSE Ok([st EXCEPT !.config =
                    [get_config EXCEPT !.purchase_price = purchase_price,
                                       !.transfer_price = transfer_price,
                                       !.edit_price = edit_price]],
                <<>>)

\* a price given as None is left as it was
execute_edit_conf_keep(st, info, purchase_price, transfer_price, edit_price) ==
    LET get_config == st.config
        fee == assert_sent_sufficient_coin(info.funds, get_config.transfer_price)
        new(given, old) == IF given = None THEN old ELSE given
    IN  IF fee # OkResult THEN Err(fee, st)
        ELSE IF get_config.owner # info.sender
        THEN Err([kind |-> "Unauthorized"], st)
        ELSE Ok([st EXCEPT !.config =
                    [get_config EXCEPT
                        !.purchase_price = new(purchase_price, get_config.purchase_price),
                        !.transfer_price = new(transfer_price, get_config.transfer_price),
                        !.edit_price = new(edit_price, get_config.edit_price)]],
                <<>>)

\* the caller is checked before the fee gate runs
execute_edit_conf_auth_first(st, info, purchase_price, transfer_price, edit_price) ==
    LET get_config == st.config
        fee == assert_sent_sufficient_coin(info.funds, get_config.transfer_price)
    IN  IF get_config.owner # info.sender
        THEN Err([kind |-> "Unauthorized"], st)
        ELSE IF fee # OkResult THEN Err(fee, st)
        ELSE Ok([st EXCEPT !.config =
                    [get_config EXCEPT !.purchase_price = purchase_price,
                                       !.transfer_price = transfer_price,
                                       !.edit_price = edit_price]],
                <<>>)

execute_edit_conf(st, info, purchase_price, transfer_price, edit_price) ==
    LET get_config == st.config
        fee == assert_sent_sufficient_coin(info.funds, get_config.transfer_price)
    IN  IF fee # OkResult THEN Err(fee, st)
        ELSE IF get_config.owner # info.sender
        THEN Err([kind |-> "Unauthorized"], st)
        ELSE Ok([st EXCEPT !.config =
                    [get_config EXCEPT !.purchase_price = purchase_price,
                                       !.transfer_price = transfer_price,
                                       !.edit_price = edit_price]],
                <<>>)

send_tokens(amount, action, address) ==
    <<[to_address |-> address, amount |-> amount]>>

\* Variant of execute_refund with one plausible slip.

\* the caller is not checked, and the balance is sent to the caller
execute_refund_to_caller(st, info, balance) ==
    Ok(st, send_tokens(balance, "refund", info.sender))

execute_refund(st, info, balance) ==
    LET config == st.config
    IN  IF config.owner # info.sender
        THEN Err([kind |-> "Unauthorized"], st)
        ELSE Ok(st, send_tokens(balance, "refund", config.owner))

----------------------------------------------------------------------------
(* The state machine                                                       *)

NoRequest == [op |-> "none"]
NoResponse == [result |-> [kind |-> "none"], messages |-> <<>>]

InstantiateMsgs ==
    [admin : {None} \cup {Some(a) : a \in AddrStrings},
     purchase_price : PriceInputs,
     transfer_price : PriceInputs,
     edit_price : PriceInputs]

Infos == [sender : Addrs, funds : FundsInputs]

\* the state after instantiate, run once at deployment; it finds an empty
\* storage, and `before` starts as the storage it leaves
Init ==
    \E sender \in Addrs, msg \in InstantiateMsgs :
        LET info == [sender |-> sender, funds |-> <<>>]
            st == instantiate(info, msg)
        IN  /\ CONFIG = st.config
            /\ NAME_RESOLVER = st.name_resolver
            /\ contract_version = st.version
            /\ request = [op |-> "instantiate", info |-> info, msg |-> msg]
            /\ response = [result |-> OkResult, messages |-> <<>>]
            /\ before = st

\* the host runs one request to completion before it starts the next
Idle == request = NoRequest

Apply(req, out) ==
    /\ CONFIG' = out.storage.config
    /\ NAME_RESOLVER' = out.storage.name_resolver
    /\ contract_version' = out.storage.version
    /\ request' = req
    /\ response' = [result |-> out.err, messages |-> out.messages]
    /\ before' = Storage

ExecuteRegister ==
    /\ Idle
    /\ \E info \in Infos, name \in NameInputs, text \in TextInputs :
           Apply([op |-> "register", info |-> info, name |-> name, bio |-> text.bio,
                  website |-> text.website],
                 execute_register(Storage, info, name, text.bio, text.website))

ExecuteTransfer ==
    /\ Idle
    /\ \E info \in Infos, name \in KeyInputs, to \in AddrStrings :
           Apply([op |-> "transfer", info |-> info, name |-> name, to |-> to],
                 execute_transfer(Storage, info, name, to))

ExecuteEdit ==
    /\ Idle
    /\ \E info \in Infos, name \in KeyInputs, text \in TextInputs :
           Apply([op |-> "edit", info |-> info, name |-> name, bio |-> text.bio,
                  website |-> text.website],
                 execute_edit(Storage, info, name, text.bio, text.website))

ExecuteEditConf ==
    /\ Idle
    /\ \E info \in Infos, purchase_price \in PriceInputs, transfer_price \in PriceInputs,
          edit_price \in PriceInputs :
           Apply([op |-> "editconf", info |-> info, purchase_price |-> purchase_price,
                  transfer_price |-> transfer_price, edit_price |-> edit_price],
                 execute_edit_conf(Storage, info, purchase_price, transfer_price, edit_price))

ExecuteRefund ==
    /\ Idle
    /\ \E info \in Infos, balance \in BalanceInputs :
           Apply([op |-> "refund", info |-> info, balance |-> balance],
                 execute_refund(Storage, info, balance))

Migrate ==
    /\ Idle
    /\ Apply([op |-> "migrate"], migrate(Storage))

\* the host hands the result of the finished request back to its caller
Deliver ==
    /\ ~Idle
    /\ request' = NoRequest
    /\ response' = NoResponse
    /\ before' = Storage
    /\ UNCHANGED <<CONFIG, NAME_RESOLVER, contract_version>>

Next ==
    \/ ExecuteRegister
    \/ ExecuteTransfer
    \/ ExecuteEdit
    \/ ExecuteEditConf
    \/ ExecuteRefund
    \/ Migrate
    \/ Deliver

Spec == Init /\ [][Next]_vars

----------------------------------------------------------------------------
(* The name validator on its own                                           *)

\* the most characters a candidate name is built from, after an optional pad
MaxNameChars == 3

\* the ends of the three accepted ranges, their neighbours outside, and one
\* character of each multi-byte width (e-acute, the euro sign, an emoji)
NameChars == {97, 122, 48, 57, 45, 96, 123, 47, 58, 65, 233, 8364, 128512}

RECURSIVE NamesOf(_)
NamesOf(n) ==
    IF n = 0 THEN {<<>>}
    ELSE LET shorter == NamesOf(n - 1)
         IN  shorter \cup {Append(s, c) : s \in {t \in shorter : Len(t) = n - 1},
                                          c \in NameChars}

\* a run of letters that brings the candidates to the upper length limit
NamePad == Str(97, MAX_NAME_LENGTH - MaxNameChars)

ValidateInputs == {pad \o s : pad \in {<<>>, NamePad}, s \in NamesOf(MaxNameChars)}

ValidateInit ==
    LET st == instantiate([sender |-> 1, funds |-> <<>>],
                          [admin |-> None, purchase_price |-> None,
                           transfer_price |-> None, edit_price |-> None])
    IN  /\ CONFIG = st.config
        /\ NAME_RESOLVER = st.name_resolver
        /\ contract_version = st.version
        /\ request = NoRequest
        /\ response = NoResponse
        /\ before = st

Validate ==
    /\ Idle
    /\ \E name \in ValidateInputs :
          /\ request' = [op |-> "validate_name", name |-> name]
          /\ response' = [result |-> validate_name(name), messages |-> <<>>]
    /\ before' = Storage
    /\ UNCHANGED <<CONFIG, NAME_RESOLVER, contract_version>>

ValidateNext ==
    \/ Validate
    \/ Deliver

SpecValidate == ValidateInit /\ [][ValidateNext]_vars

----------------------------------------------------------------------------
(* Vocabulary of the properties.  In a state where a request has run,      *)
(* `request` is that request, `response` what its handler returned,        *)
(* `before` the storage it found and CONFIG, NAME_RESOLVER the storage it   *)
(* left.                                                                   *)

Ran(op) == request.op = op
Kind == response.result.kind
Failed == Kind \notin {"Ok", "none"}
Caller == request.info.sender

FeePasses(price) == assert_sent_sufficient_coin(request.info.funds, price) = OkResult

TextsFit ==
    /\ StrLen(request.bio) <= MAX_BIO_LENGTH
    /\ StrLen(request.website) <= MAX_WEBSITE_LENGTH

HadRecord(name) == name \in DOMAIN before.name_resolver

StorageUnchanged ==
    /\ CONFIG = before.config
    /\ NAME_RESOLVER = before.name_resolver

\* every record but the one under `name` is as the request found it
OthersUnchanged(name) ==
    \A k \in (DOMAIN before.name_resolver \cup DOMAIN NAME_RESOLVER) \ {name} :
        /\ k \in DOMAIN before.name_resolver
        /\ k \in DOMAIN NAME_RESOLVER
        /\ NAME_RESOLVER[k] = before.name_resolver[k]

----------------------------------------------------------------------------
(* Properties                                                              *)

\* C1: execute_register on a name that already has a record (the name valid,
\* the fee gate passing, bio and website within bounds) fails with NameTaken
\* for any caller, the record's owner included, and leaves every record and
\* the configuration unchanged.
C1_RegisterTaken ==
    ( /\ Ran("register")
      /\ validate_name(request.name) = OkResult
      /\ FeePasses(before.config.purchase_price)
      /\ TextsFit
      /\ HadRecord(request.name) )
    => /\ response.result = [kind |-> "NameTaken", name |-> request.name]
       /\ StorageUnchanged

\* the record's current owner registers its own name again and is refused
C1_Witness ==
    /\ Ran("register")
    /\ Kind = "NameTaken"
    /\ Caller = NAME_RESOLVER[request.name].owner
    /\ request.bio # NAME_RESOLVER[request.name].bio

\* C2: execute_transfer whose fee gate passes and whose target address
\* validates fails NameNotExists when the name has no record and Unauthorized
\* when the caller is not the record's owner (the registry owner included);
\* in both cases the record table and the configuration are unchanged.
C2_TransferRefused ==
    ( /\ Ran("transfer")
      /\ FeePasses(before.config.transfer_price)
      /\ addr_validate(request.to) = OkResult )
    => /\ ~HadRecord(request.name)
            => /\ response.result = [kind |-> "NameNotExists", name |-> request.name]
               /\ StorageUnchanged
       /\ ( /\ HadRecord(request.name)
            /\ Caller # before.name_resolver[request.name].owner )
            => /\ Kind = "Unauthorized"
               /\ StorageUnchanged

\* the registry owner tries to transfer a name it does not own
C2_Witness ==
    /\ Ran("transfer")
    /\ Kind = "Unauthorized"
    /\ Caller = CONFIG.owner
    /\ request.to = Caller

\* C3: every request is all-or-nothing: when a handler returns an error of
\* any kind, the configuration and the whole record table are as before it.
C3_AllOrNothing == Failed => StorageUnchanged

\* an authorized edit fails on the website's length, after the bio passed
C3_Witness ==
    /\ Ran("edit")
    /\ Kind = "WebsiteTooLong"
    /\ request.bio # NAME_RESOLVER[request.name].bio

\* C4: execute_register on a valid name without a record, the fee gate
\* passing, bio <= 200 and website <= 100 bytes, succeeds; afterwards exactly
\* one new key, that name, exists and holds {owner: caller, bio, website} as
\* given, and every earlier record and the configuration are unchanged.
C4_RegisterCreates ==
    ( /\ Ran("register")
      /\ validate_name(request.name) = OkResult
      /\ FeePasses(before.config.purchase_price)
      /\ TextsFit
      /\ ~HadRecord(request.name) )
    => /\ Kind = "Ok"
       /\ DOMAIN NAME_RESOLVER = DOMAIN before.name_resolver \cup {request.name}
       /\ NAME_RESOLVER[request.name] =
              [owner |-> Caller, bio |-> request.bio, website |-> request.website]
       /\ OthersUnchanged(request.name)
       /\ CONFIG = before.config

\* a second name is registered, with bio and website at their limits and an
\* overpaid purchase price
C4_Witness ==
    /\ Ran("register")
    /\ Kind = "Ok"
    /\ Cardinality(DOMAIN NAME_RESOLVER) = 2
    /\ StrLen(request.bio) = MAX_BIO_LENGTH
    /\ StrLen(request.website) = MAX_WEBSITE_LENGTH
    /\ before.config.purchase_price # None

\* C5: a successful execute_transfer by the record's current owner sets the
\* record's owner to the validated new owner and leaves its bio and website,
\* every other record and the configuration unchanged.
C5_TransferFrame ==
    ( /\ Ran("transfer")
      /\ Kind = "Ok"
      /\ HadRecord(request.name)
      /\ Caller = before.name_resolver[request.name].owner )
    => /\ request.name \in DOMAIN NAME_RESOLVER
       /\ NAME_RESOLVER[request.name] =
              [before.name_resolver[request.name] EXCEPT !.owner = request.to]
       /\ addr_validate(request.to) = OkResult
       /\ OthersUnchanged(request.name)
       /\ CONFIG = before.config

\* a name changes hands while another name is registered
C5_Witness ==
    /\ Ran("transfer")
    /\ Kind = "Ok"
    /\ request.to # Caller
    /\ NAME_RESOLVER[request.name].owner = request.to
    /\ Cardinality(DOMAIN NAME_RESOLVER) = 2

\* C6: a successful execute_edit by the record's current owner with bio <= 200
\* and website <= 100 bytes replaces the record's bio and website with the
\* supplied ones and leaves its owner, every other record and the
\* configuration unchanged.
C6_EditFrame ==
    ( /\ Ran("edit")
      /\ Kind = "Ok"
      /\ HadRecord(request.name)
      /\ Caller = before.name_resolver[request.name].owner
      /\ TextsFit )
    => /\ request.name \in DOMAIN NAME_RESOLVER
       /\ NAME_RESOLVER[request.name] =
              [owner |-> before.name_resolver[request.name].owner,
               bio |-> request.bio, website |-> request.website]
       /\ OthersUnchanged(request.name)
       /\ CONFIG = before.config

\* an edit changes both texts of a record while another name is registered
C6_Witness ==
    /\ Ran("edit")
    /\ Kind = "Ok"
    /\ before.name_resolver[request.name].bio # request.bio
    /\ before.name_resolver[request.name].website # request.website
    /\ Cardinality(DOMAIN NAME_RESOLVER) = 2

\* C7 as claimed: edit_config by any caller other than the registry owner
\* fails with Unauthorized and leaves the configuration unchanged, for any
\* attached funds.
C7_Claimed ==
    (Ran("editconf") /\ Caller # before.config.owner)
    => /\ Kind = "Unauthorized"
       /\ CONFIG = before.config

\* C7 amended: edit_config by any caller other than the registry owner fails
\* and leaves the configuration unchanged; it fails with InsufficientFunds
\* when the fee gate rejects the attached funds against the stored
\* transfer_price, and with Unauthorized otherwise.
C7_EditConfRefused ==
    (Ran("editconf") /\ Caller # before.config.owner)
    => /\ Kind = IF FeePasses(before.config.transfer_price)
                 THEN "Unauthorized"
                 ELSE "InsufficientFunds"
       /\ CONFIG = before.config

\* a caller who is not the registry owner pays the transfer price and is
\* refused
C7_Witness ==
    /\ Ran("editconf")
    /\ Caller # CONFIG.owner
    /\ Kind = "Unauthorized"
    /\ CONFIG.transfer_price # None
    /\ request.transfer_price # CONFIG.transfer_price

\* C8: a successful edit_config by the registry owner overwrites the three
\* prices with exactly the supplied values, a supplied None clearing the
\* price, and leaves the record table unchanged.
C8_EditConfOverwrites ==
    ( /\ Ran("editconf")
      /\ Kind = "Ok"
      /\ Caller = before.config.owner )
    => /\ CONFIG.purchase_price = request.purchase_price
       /\ CONFIG.transfer_price = request.transfer_price
       /\ CONFIG.edit_price = request.edit_price
       /\ NAME_RESOLVER = before.name_resolver

\* the registry owner clears a price that was set and sets one that was not
C8_Witness ==
    /\ Ran("editconf")
    /\ Kind = "Ok"
    /\ before.config.purchase_price # None
    /\ request.purchase_price = None
    /\ before.config.edit_price = None
    /\ request.edit_price # None
    /\ NAME_RESOLVER # <<>>

\* the price an operation is gated on
GatePrice ==
    IF Ran("register") THEN before.config.purchase_price
    ELSE IF Ran("transfer") THEN before.config.transfer_price
    ELSE before.config.edit_price

\* the attached funds hold a coin of the price's denom worth at least its amount
Covers(funds, price) ==
    \E i \in 1..Len(funds) :
        funds[i].denom = price[1].denom /\ funds[i].amount >= price[1].amount

\* C9 as claimed: register, transfer and edit are gated on purchase_price,
\* transfer_price and edit_price as stored: with the price set and no
\* attached coin covering it the operation fails InsufficientFunds and no
\* record is created or modified; with the price unset or covered the fee
\* gate does not reject.
C9_Claimed ==
    (Ran("register") \/ Ran("transfer") \/ Ran("edit"))
    => IF GatePrice # None /\ ~Covers(request.info.funds, GatePrice)
       THEN Kind = "InsufficientFunds" /\ NAME_RESOLVER = before.name_resolver
       ELSE Kind # "InsufficientFunds"

\* C9 amended: as claimed, but register reports InsufficientFunds only for a
\* valid name: validate_name runs before the fee gate and its error comes
\* first.  No record is created or modified either way.
C9_FeeGate ==
    (Ran("register") \/ Ran("transfer") \/ Ran("edit"))
    => IF GatePrice # None /\ ~Covers(request.info.funds, GatePrice)
       THEN /\ Kind = IF Ran("register") /\ validate_name(request.name) # OkResult
                      THEN validate_name(request.name).kind
                      ELSE "InsufficientFunds"
            /\ NAME_RESOLVER = before.name_resolver
       ELSE Kind # "InsufficientFunds"

\* the owner of a record edits it with a coin of another denom and too small
\* a coin of the price's denom, while the other two prices are unset
C9_Witness ==
    /\ Ran("edit")
    /\ Kind = "InsufficientFunds"
    /\ HadRecord(request.name)
    /\ Caller = NAME_RESOLVER[request.name].owner
    /\ request.info.funds # <<>>
    /\ CONFIG.transfer_price = None
    /\ CONFIG.purchase_price = None

\* C10: records are permanent: no step removes a key from the record table,
\* and the set of keys grows only in a successful register, by exactly the
\* registered name.
C10_RecordsPermanent ==
    [][ /\ DOMAIN NAME_RESOLVER \subseteq DOMAIN NAME_RESOLVER'
        /\ DOMAIN NAME_RESOLVER' # DOMAIN NAME_RESOLVER
            => request'.op = "register" /\ response'.result.kind = "Ok"
        /\ (request'.op = "register" /\ response'.result.kind = "Ok")
            => /\ request'.name \notin DOMAIN NAME_RESOLVER
               /\ DOMAIN NAME_RESOLVER' = DOMAIN NAME_RESOLVER \cup {request'.name}
      ]_vars

\* both names are registered and one of them has since been transferred
C10_Witness ==
    /\ Cardinality(DOMAIN NAME_RESOLVER) = 2
    /\ Ran("transfer")
    /\ Kind = "Ok"

\* C11 as claimed: after instantiate, purchase_price, transfer_price and
\* edit_price are all unset, whatever the instantiate message contains.
C11_Claimed ==
    Ran("instantiate")
    => /\ CONFIG.purchase_price = None
       /\ CONFIG.transfer_price = None
       /\ CONFIG.edit_price = None

\* C11 amended: after instantiate, each of the three prices is the price the
\* instantiate message gives for it, and is unset exactly when the message
\* gives none.
C11_InstantiatePrices ==
    Ran("instantiate")
    => /\ CONFIG.purchase_price = request.msg.purchase_price
       /\ CONFIG.transfer_price = request.msg.transfer_price
       /\ CONFIG.edit_price = request.msg.edit_price
       /\ NAME_RESOLVER = <<>>

\* a deployment that sets the purchase price and leaves the other two unset
C11_Witness ==
    /\ Ran("instantiate")
    /\ CONFIG.purchase_price = Some(Price)
    /\ CONFIG.transfer_price = None
    /\ CONFIG.edit_price = None

\* C12: after instantiate the configuration owner is the supplied admin when
\* one is given and passes address validation, and the deployer (the message
\* sender) when the admin is absent or fails validation; instantiate never
\* fails because of an invalid admin.
C12_InstantiateOwner ==
    Ran("instantiate")
    => /\ Kind = "Ok"
       /\ CONFIG.owner =
              IF request.msg.admin # None /\ request.msg.admin[1] \in Addrs
              THEN request.msg.admin[1]
              ELSE request.info.sender

\* a deployment whose admin fails validation: the deployer becomes the owner
C12_Witness ==
    /\ Ran("instantiate")
    /\ request.msg.admin = Some(BadAddr)
    /\ CONFIG.owner = request.info.sender
    /\ CONFIG.owner # 1

\* C13: in every reachable state every stored record has a bio of at most 200
\* bytes and a website of at most 100 bytes.
C13_StoredTextsFit ==
    \A k \in DOMAIN NAME_RESOLVER :
        /\ StrLen(NAME_RESOLVER[k].bio) <= MAX_BIO_LENGTH
        /\ StrLen(NAME_RESOLVER[k].website) <= MAX_WEBSITE_LENGTH

\* an edit has just stored a bio and a website of exactly the greatest lengths
C13_Witness ==
    /\ Ran("edit")
    /\ Kind = "Ok"
    /\ StrLen(NAME_RESOLVER[request.name].bio) = MAX_BIO_LENGTH
    /\ StrLen(NAME_RESOLVER[request.name].website) = MAX_WEBSITE_LENGTH
    /\ StrLen(before.name_resolver[request.name].bio) < MAX_BIO_LENGTH

\* C15: refund fails Unauthorized unless the caller is the registry owner; for
\* the registry owner it emits exactly one outbound transfer, of the whole
\* balance of the contract, to the configuration owner; either way the
\* configuration and the record table are unchanged.
C15_Refund ==
    Ran("refund")
    => /\ IF Caller # before.config.owner
          THEN Kind = "Unauthorized" /\ response.messages = <<>>
          ELSE /\ Kind = "Ok"
               /\ response.messages =
                      <<[to_address |-> before.config.owner, amount |-> request.balance]>>
       /\ StorageUnchanged

\* the registry owner drains a balance that is not empty, with names registered
C15_Witness ==
    /\ Ran("refund")
    /\ Kind = "Ok"
    /\ request.balance # <<>>
    /\ Len(response.messages) = 1
    /\ NAME_RESOLVER # <<>>

\* C16: a record's owner changes only in a successful transfer of that name
\* by the caller who owned the record just before, and its bio or website
\* only in a successful edit of that name by its owner at that moment; no
\* other operation or caller, the registry owner included, alters a record.
C16_OnlyOwnerAlters ==
    \A k \in DOMAIN before.name_resolver :
        /\ k \in DOMAIN NAME_RESOLVER
        /\ NAME_RESOLVER[k].owner # before.name_resolver[k].owner
            => /\ Ran("transfer")
               /\ Kind = "Ok"
               /\ request.name = k
               /\ Caller = before.name_resolver[k].owner
        /\ ( \/ NAME_RESOLVER[k].bio # before.name_resolver[k].bio
             \/ NAME_RESOLVER[k].website # before.name_resolver[k].website )
            => /\ Ran("edit")
               /\ Kind = "Ok"
               /\ request.name = k
               /\ Caller = before.name_resolver[k].owner

\* a holder who is not the registry owner edits a name it received by transfer
C16_Witness ==
    /\ Ran("edit")
    /\ Kind = "Ok"
    /\ Caller # CONFIG.owner
    /\ NAME_RESOLVER[request.name].bio # before.name_resolver[request.name].bio
    /\ \E k \in DOMAIN NAME_RESOLVER : NAME_RESOLVER[k].owner = CONFIG.owner

\* C17: in execute_edit the length checks come after the existence and the
\* authorization check: with the fee gate passing, an edit whose bio exceeds
\* 200 or whose website exceeds 100 bytes fails NameNotExists when the name
\* has no record, Unauthorized when the caller is not the record's owner, and
\* BioTooLong (checked first) or WebsiteTooLong only for the record's owner,
\* the record then being left unchanged.
C17_EditOrder ==
    ( /\ Ran("edit")
      /\ FeePasses(before.config.edit_price)
      /\ ~TextsFit )
    => /\ response.result =
              IF ~HadRecord(request.name)
              THEN [kind |-> "NameNotExists", name |-> request.name]
              ELSE IF Caller # before.name_resolver[request.name].owner
              THEN [kind |-> "Unauthorized"]
              ELSE IF StrLen(request.bio) > MAX_BIO_LENGTH
              THEN BioTooLong(StrLen(request.bio))
              ELSE WebsiteTooLong(StrLen(request.website))
       /\ StorageUnchanged

\* an edit of another holder's name with both texts too long is refused as
\* unauthorized
C17_Witness ==
    /\ Ran("edit")
    /\ Kind = "Unauthorized"
    /\ StrLen(request.bio) > MAX_BIO_LENGTH
    /\ StrLen(request.website) > MAX_WEBSITE_LENGTH

\* the alphabet of names: ASCII lowercase letters, ASCII digits, the hyphen
Alphabet == (97..122) \cup (48..57) \cup {45}

\* the length of a name, in bytes of UTF-8: one per character, and one more
\* for each width the character exceeds
Bytes(name) ==
    Len(name) + Cardinality({i \in 1..Len(name) : name[i] >= 128})
              + Cardinality({i \in 1..Len(name) : name[i] >= 2048})
              + Cardinality({i \in 1..Len(name) : name[i] >= 65536})

\* the characters of a name that are outside the alphabet, in order
Offenders(name) == SelectSeq(name, LAMBDA c : c \notin Alphabet)

WellFormed(name) ==
    /\ Bytes(name) \in MIN_NAME_LENGTH..MAX_NAME_LENGTH
    /\ Offenders(name) = <<>>

\* C14: validate_name succeeds for every name of length 3-30 made only of
\* ASCII lowercase letters, ASCII digits and hyphens; for any other name it
\* fails NameTooShort when the length is below 3, NameTooLong when it is above
\* 30, and otherwise InvalidCharacter carrying the first character outside the
\* alphabet, whole, also when it is multi-byte. The length is the one
\* name.len() measures, in bytes.
C14_ValidateName ==
    Ran("validate_name")
    => LET name == request.name
           length == Bytes(name)
       IN  /\ WellFormed(name) => response.result = OkResult
           /\ length < MIN_NAME_LENGTH
                => response.result = [kind |-> "NameTooShort", length |-> length,
                                      min_length |-> MIN_NAME_LENGTH]
           /\ length > MAX_NAME_LENGTH
                => response.result = [kind |-> "NameTooLong", length |-> length,
                                      max_length |-> MAX_NAME_LENGTH]
           /\ (length \in MIN_NAME_LENGTH..MAX_NAME_LENGTH /\ Offenders(name) # <<>>)
                => response.result = [kind |-> "InvalidCharacter",
                                      c |-> Head(Offenders(name))]

\* a name of exactly 30 bytes whose first offender is a multi-byte character
\* that follows valid ones, with a second offender behind it
C14_Witness ==
    /\ Ran("validate_name")
    /\ Bytes(request.name) = MAX_NAME_LENGTH
    /\ Kind = "InvalidCharacter"
    /\ response.result.c >= 128
    /\ Len(Offenders(request.name)) > 1
    /\ request.name[1] \in Alphabet

\* a valid name at each end of the length range is accepted
C14_WitnessOk ==
    /\ Ran("validate_name")
    /\ Kind = "Ok"
    /\ Bytes(request.name) = MAX_NAME_LENGTH

\* C18: edit_config runs the fee gate against the transfer_price stored before
\* the request, and before the authorization check: it fails
\* InsufficientFunds, leaving the configuration unchanged, exactly when the
\* attached funds do not cover the stored transfer_price, for the registry
\* owner too; and for the registry owner it succeeds whenever they do,
\* whatever transfer_price the request sets.
C18_EditConfGate ==
    Ran("editconf")
    => /\ Kind = "InsufficientFunds" <=> ~FeePasses(before.config.transfer_price)
       /\ Kind = "InsufficientFunds" => CONFIG = before.config
       /\ (Caller = before.config.owner /\ FeePasses(before.config.transfer_price))
            => /\ Kind = "Ok"
               /\ CONFIG.transfer_price = request.transfer_price

\* the registry owner sets a transfer price, attaching nothing, while none is
\* stored: the funds cover the old price only
C18_Witness ==
    /\ Ran("editconf")
    /\ Kind = "Ok"
    /\ before.config.transfer_price = None
    /\ CONFIG.transfer_price = Some(Price)
    /\ request.info.funds = <<>>
    /\ ~FeePasses(CONFIG.transfer_price)

\* the registry owner is refused by the gate on the price now stored
C18_WitnessLater ==
    /\ Ran("editconf")
    /\ Kind = "InsufficientFunds"
    /\ Caller = CONFIG.owner
    /\ request.transfer_price = None

\* C19: every key of the record table is a valid name in every reachable
\* state; hence transfer and edit never succeed on an invalid name, and fail
\* NameNotExists for it once their fee and address checks pass.
C19_KeysValid ==
    /\ \A k \in DOMAIN NAME_RESOLVER : WellFormed(k)
    /\ ((Ran("transfer") \/ Ran("edit")) /\ ~WellFormed(request.name))
        => /\ Kind # "Ok"
           /\ ( /\ FeePasses(GatePrice)
                /\ Ran("transfer") => addr_validate(request.to) = OkResult )
                => response.result = [kind |-> "NameNotExists", name |-> request.name]

\* a transfer of an invalid name, by a holder of a valid one, finds no record
C19_Witness ==
    /\ Ran("transfer")
    /\ ~WellFormed(request.name)
    /\ Kind = "NameNotExists"
    /\ \E k \in DOMAIN NAME_RESOLVER : NAME_RESOLVER[k].owner = Caller

\* C20: the registry owner stored in the configuration is fixed at
\* instantiation: no step of register, transfer, edit, edit-config, refund or
\* migrate changes config.owner.
C20_OwnerFixed == [][CONFIG'.owner = CONFIG.owner]_vars

\* the registry owner has changed the prices and then transferred a name of
\* its own to another address
C20_Witness ==
    /\ Ran("transfer")
    /\ Kind = "Ok"
    /\ Caller = CONFIG.owner
    /\ request.to # Caller
    /\ CONFIG.edit_price # None
    /\ CONFIG.purchase_price = None

====
